---- MODULE Spec2Model ----
(***************************************************************************)
(* A model of the mf-test training launcher.                               *)
(*                                                                         *)
(*   Spec      the control process: start_training.main (session,          *)
(*             estimator, data channels, verify_s3_files, fit,             *)
(*             monitor_training_job) and the launch_training script.       *)
(*   LiveSpec  Spec with weak fairness of the control process's steps.     *)
(*   ExtractSpec   train.extract_model on one archive.                     *)
(*   JobSpec   the in-job process: train.train and sagemaker_train.train.  *)
(***************************************************************************)
EXTENDS Integers, Sequences, FiniteSets, TLC

VARIABLES
    \* ---- control process (start_training.py, launch_training.py)
    launcher,          \* which script runs: "start_training" | "launch_training"
    pc,                \* position of the control process
    chan,              \* verify_s3_files: index of the channel the loop is at
    head,              \* per channel: outcome of the head_object check
    submitted,         \* estimator.fit has been called
    status,            \* monitor_training_job: status
    description,       \* monitor_training_job: description (latest poll)
    last_description,  \* monitor_training_job: last_description
    polled,            \* history: what each describe() call produced
    describeCalls,     \* number of describe() calls issued
    sleeps,            \* number of time.sleep(30) calls
    events,            \* number of "Job status changed" log events
    icPuts,            \* put_metric('InstanceCount', ...) calls
    btPuts,            \* put_metric('BillableTime', ...) calls
    sinkErrors,        \* some put_metric failure was logged and absorbed
    result,            \* what monitor_training_job returned
    reported,          \* launch_training: describe() calls made after fit
    exit,              \* how the process ended: "running" | "ok" | "raised"
    error              \* the exception the process ended with

VARIABLES
    \* ---- extract_model (train.py:57-123)
    archive,           \* the file at model_path: its kind and member names
    destBefore,        \* top-level entries of extract_path before the call
    epc,               \* position inside extract_model
    checked,           \* member names safe_extract has accepted
    files,             \* resolved paths of the files the call has written
    eresult,           \* the path extract_model returned
    eraised            \* the exception extract_model raised

VARIABLES
    \* ---- in-job process (train.py train, sagemaker_train.py train)
    variant,           \* which script runs: "train" | "sagemaker_train"
    jpc,               \* position of the in-job process
    env,               \* os.environ: SM_CHANNEL_MODEL, SM_MODEL_DIR, RUN_DIR
    sources,           \* the train and eval channels as the process read them
    staged,            \* train.jsonl and eval.jsonl in the data directory
    baseConfig,        \* the configuration file on disk at start
    writtenConfig,     \* the YAML document the process wrote for the trainer
    gpu_count_result,  \* how `nvidia-smi --list-gpus` ended and what it listed
    num_gpus,          \* what check_gpu_availability returned
    cmd,               \* the launch command built
    runs,              \* training subprocesses started
    jexit,             \* how the process ended: "running" | "ok" | "raised"
    jerr,              \* the step that raised and the exception
    steps,             \* the validation steps that returned, in order
    proc,              \* what the training subprocess ended with
    stagings           \* how each call of setup_data_directory ended

VARIABLES
    \* ---- job names of start_training.main (start_training.py:220)
    now,               \* the wall clock, in ticks
    job_names          \* the job_name of each submission attempt, in order

mainVars == <<launcher, chan, head, submitted, reported>>
monVars == <<status, description, last_description, polled, describeCalls,
             sleeps, events, icPuts, btPuts, sinkErrors, result>>
ctrlVars == <<mainVars, monVars, pc, exit, error>>
extVars == <<archive, destBefore, epc, checked, files, eresult, eraised>>
jobVars == <<variant, jpc, env, sources, staged, baseConfig, writtenConfig,
             gpu_count_result, num_gpus, cmd, runs, jexit, jerr, steps,
             proc, stagings>>
subVars == <<now, job_names>>
vars == <<ctrlVars, extVars, jobVars, subVars>>

\* ------------------------------------------------------------------ bounds
MaxPolls == 4
MaxMembers == 2
MaxGpus == 10
MaxStagings == 2
MaxClock == 7
MaxSubmissions == 3

\* --------------------------------------------------------------- constants
None == "None"
Error == "Error"

\* monitor_training_job has not returned.
NoResult == <<>>

Last(s) == s[Len(s)]

\* start_training.py:167, the loop condition of monitor_training_job
TerminalStatuses == {"Completed", "Failed", "Stopped"}

\* The lifecycle the specification names (section 4.7).
SpecStatuses == {"Pending", "InProgress"} \cup TerminalStatuses

\* Values describe()['TrainingJobStatus'] is drawn from: the specification's
\* five and the service's transitional "Stopping".
BackendStatuses == SpecStatuses \cup {"Stopping"}

\* A describe() result, as far as monitor_training_job reads it: the status
\* and whether the keys ResourceConfig and BillableTimeInSeconds are present.
Descriptions ==
    [TrainingJobStatus : BackendStatuses,
     ResourceConfig : BOOLEAN,
     BillableTimeInSeconds : BOOLEAN]

\* start_training.py:110-114, get_data_channels: the channels in dict order.
ChannelNames == <<"train", "test", "model">>

\* start_training.py:110-114 and launch_training.py:60-64: every channel of
\* both scripts is an s3:// URI; only its scheme is read (line 125).
data_channels == [c \in {"train", "test", "model"} |-> "s3"]

\* Outcomes of s3.head_object (start_training.py:133, 140-159): success, a
\* ClientError with code 404, 403 or another code, or an error that is no
\* ClientError (no credentials, no connection), which verify_s3_files does
\* not catch.
HeadOutcomes == {"ok", "404", "403", "500", "NoCredentials"}

\* An exception as the caller of main sees it: its class and, for a
\* botocore ClientError, the service's error code.
NoError == [type |-> None, code |-> None]
SomeException == [type |-> "Exception", code |-> None]

\* How a step that raises ends the process: main's handler (244-247) logs
\* and re-raises; launch_training's handler (82-84) does the same.
RaiseError(e) ==
    /\ pc' = "end"
    /\ exit' = "raised"
    /\ error' = e

Raise == RaiseError(SomeException)

\* The step returned: the process goes on.
NoRaise ==
    /\ exit' = exit
    /\ error' = error

\* ------------------------------------------------- monitor_training_job
\* Mutants of the loop condition: a terminal status left out of the list.
LoopContinues_noStopped(s) == s \notin {"Completed", "Failed"}
LoopContinues_noFailed(s) == s \notin {"Completed", "Stopped"}

\* start_training.py:167: while status not in ['Completed', 'Failed', 'Stopped']
LoopContinues(s) == s \notin TerminalStatuses

\* Mutant of the change test: every poll counts as a change.
StatusChanged_always(new_status, old) == TRUE

\* start_training.py:171: if new_status != status
StatusChanged(new_status, old) == new_status # old

\* Mutant of the assignment: only the first observed status is recorded.
RecordedStatus_first(new_status, old) == IF old = None THEN new_status ELSE old

\* start_training.py:172: status = new_status
RecordedStatus(new_status, old) == new_status

\* Mutant of the test at line 177: InstanceCount is put whether or not the
\* description carries ResourceConfig.
InstanceCountPuts_always(d) == 1

\* start_training.py:177-185: the put_metric calls one status change makes.
InstanceCountPuts(d) == IF d.ResourceConfig THEN 1 ELSE 0
BillableTimePuts(d) == IF d.BillableTimeInSeconds THEN 1 ELSE 0

\* No describe() has returned yet: last_description is None (line 165) and
\* description is not bound.
NoDescription ==
    [TrainingJobStatus |-> None,
     ResourceConfig |-> FALSE,
     BillableTimeInSeconds |-> FALSE]

\* start_training.py:164-165: the locals before the loop.
MonitorInit ==
    /\ status = None
    /\ description = NoDescription
    /\ last_description = NoDescription
    /\ polled = <<>>
    /\ describeCalls = 0
    /\ sleeps = 0
    /\ events = 0
    /\ icPuts = 0
    /\ btPuts = 0
    /\ sinkErrors = FALSE
    /\ result = NoResult

\* Mutant of put_metric: without its try/except a failure of the sink
\* reaches the handler of monitor_training_job, which re-raises it.
monitor_poll_sinkRaises ==
    /\ pc = "monitor"
    /\ LoopContinues(status)
    /\ describeCalls < MaxPolls
    /\ \E d \in Descriptions :
          LET new_status == d.TrainingJobStatus
              changed == StatusChanged(new_status, status)
              puts == InstanceCountPuts(d) + BillableTimePuts(d)
          IN  /\ describeCalls' = describeCalls + 1
              /\ polled' = Append(polled, new_status)
              /\ description' = d
              /\ IF changed
                    THEN /\ status' = RecordedStatus(new_status, status)
                         /\ events' = events + 1
                         /\ icPuts' = icPuts + InstanceCountPuts(d)
                         /\ btPuts' = btPuts + BillableTimePuts(d)
                         /\ last_description' = d
                         /\ \E failed \in 0..puts :
                               /\ sinkErrors' = (sinkErrors \/ failed > 0)
                               /\ IF failed > 0
                                    THEN Raise /\ sleeps' = sleeps
                                    ELSE /\ pc' = pc
                                         /\ NoRaise
                                         /\ sleeps' = sleeps + 1
                    ELSE /\ UNCHANGED <<status, events, icPuts, btPuts,
                                        sinkErrors, last_description, pc>>
                         /\ NoRaise
                         /\ sleeps' = sleeps + 1
    /\ UNCHANGED <<mainVars, result, extVars, jobVars, subVars>>

\* start_training.py:168-189: one iteration whose describe() succeeds. Each
\* put_metric may fail in the sink; CloudWatchCallback.put_metric (50-65)
\* logs the failure and returns.
monitor_poll ==
    /\ pc = "monitor"
    /\ LoopContinues(status)
    /\ describeCalls < MaxPolls
    /\ \E d \in Descriptions :
          LET new_status == d.TrainingJobStatus
              changed == StatusChanged(new_status, status)
              puts == InstanceCountPuts(d) + BillableTimePuts(d)
          IN  /\ describeCalls' = describeCalls + 1
              /\ polled' = Append(polled, new_status)
              /\ description' = d
              /\ IF changed
                    THEN /\ status' = RecordedStatus(new_status, status)
                         /\ events' = events + 1
                         /\ icPuts' = icPuts + InstanceCountPuts(d)
                         /\ btPuts' = btPuts + BillableTimePuts(d)
                         /\ \E failed \in 0..puts :
                                sinkErrors' = (sinkErrors \/ failed > 0)
                         /\ last_description' = d
                    ELSE UNCHANGED <<status, events, icPuts, btPuts,
                                     sinkErrors, last_description>>
              /\ sleeps' = sleeps + 1
    /\ UNCHANGED <<mainVars, pc, result, exit, error, extVars, jobVars,
                   subVars>>

\* Mutant of the handler: the error is logged and the loop polls again.
monitor_raise_retry ==
    /\ pc = "monitor"
    /\ LoopContinues(status)
    /\ describeCalls < MaxPolls
    /\ describeCalls' = describeCalls + 1
    /\ polled' = Append(polled, Error)
    /\ UNCHANGED <<mainVars, pc, exit, error, status, description,
                   last_description,
                   sleeps, events, icPuts, btPuts, sinkErrors, result,
                   extVars, jobVars, subVars>>

\* start_training.py:169, 190-192 and 244-247: describe() raises; the
\* handler logs and re-raises, main logs and re-raises.
monitor_raise ==
    /\ pc = "monitor"
    /\ LoopContinues(status)
    /\ describeCalls < MaxPolls
    /\ describeCalls' = describeCalls + 1
    /\ polled' = Append(polled, Error)
    /\ Raise
    /\ UNCHANGED <<mainVars, status, description, last_description, sleeps,
                   events, icPuts, btPuts, sinkErrors, result, extVars,
                   jobVars, subVars>>

\* start_training.py:167 and 193: the loop condition fails; return.
monitor_return ==
    /\ pc = "monitor"
    /\ ~LoopContinues(status)
    /\ result' = <<status, description>>
    /\ pc' = "final"
    /\ UNCHANGED <<mainVars, status, description, last_description, polled,
                   describeCalls, sleeps, events, icPuts, btPuts, sinkErrors,
                   exit, error, extVars, jobVars, subVars>>

\* ------------------------------------------------------ start_training.main
\* start_training.py:205 create_local_session; launch_training.py:18
\* sagemaker.Session().
create_session ==
    /\ pc = "session"
    /\ \E ok \in BOOLEAN :
          IF ok THEN pc' = "estimator" /\ NoRaise ELSE Raise
    /\ UNCHANGED <<mainVars, monVars, extVars, jobVars, subVars>>

\* start_training.py:211 create_estimator; launch_training.py:25-43.
create_estimator ==
    /\ pc = "estimator"
    /\ \E ok \in BOOLEAN :
          IF ok THEN pc' = "channels" /\ NoRaise ELSE Raise
    /\ UNCHANGED <<mainVars, monVars, extVars, jobVars, subVars>>

\* start_training.py:214-217: get_data_channels, then verify_s3_files is
\* entered. launch_training.py:60-74 goes from the channels to fit.
get_data_channels ==
    /\ pc = "channels"
    /\ pc' = IF launcher = "start_training" THEN "verify" ELSE "fit"
    /\ UNCHANGED <<mainVars, monVars, exit, error, extVars, jobVars,
                   subVars>>

\* start_training.py:140-159: every branch of the handler ends in a bare
\* `raise`, which re-raises the botocore ClientError it caught, unchanged;
\* an error that is no ClientError passes the handler by.
ErrorRaised(outcome) ==
    IF outcome = "NoCredentials"
      THEN [type |-> "NoCredentialsError", code |-> None]
      ELSE [type |-> "ClientError", code |-> outcome]

\* start_training.py:124-159: one iteration of the loop of verify_s3_files.
\* A channel that is no s3:// URI is skipped; a head_object failure of any
\* kind is re-raised; after the last channel main goes on to fit.
verify_s3_files ==
    /\ pc = "verify"
    /\ chan <= Len(ChannelNames)
    /\ LET channel_name == ChannelNames[chan]
           last == chan = Len(ChannelNames)
       IN  IF data_channels[channel_name] # "s3"
             THEN /\ head' = [head EXCEPT ![channel_name] = "skipped"]
                  /\ chan' = chan + 1
                  /\ pc' = IF last THEN "fit" ELSE pc
                  /\ NoRaise
             ELSE \E outcome \in HeadOutcomes :
                    /\ head' = [head EXCEPT ![channel_name] = outcome]
                    /\ IF outcome = "ok"
                          THEN /\ chan' = chan + 1
                               /\ pc' = IF last THEN "fit" ELSE pc
                               /\ NoRaise
                          ELSE /\ chan' = chan
                               /\ RaiseError(ErrorRaised(outcome))
    /\ UNCHANGED <<launcher, submitted, reported, monVars, extVars, jobVars, subVars>>

\* start_training.py:220-232: the job is submitted; fit may raise. After it
\* main enters monitor_training_job. launch_training.py:74-80 goes on to
\* report the job.
fit ==
    /\ pc = "fit"
    /\ submitted' = TRUE
    /\ \E ok \in BOOLEAN :
          IF ok
            THEN /\ pc' = IF launcher = "start_training" THEN "monitor"
                                                         ELSE "report"
                 /\ NoRaise
            ELSE Raise
    /\ UNCHANGED <<launcher, chan, head, reported, monVars, extVars, jobVars, subVars>>

\* start_training.py:233-242: main logs the outcome and returns, whatever the
\* final status.
main_finish ==
    /\ pc = "final"
    /\ pc' = "end"
    /\ exit' = "ok"
    /\ UNCHANGED <<mainVars, monVars, error, extVars, jobVars, subVars>>

\* launch_training.py:78-80: the job name is logged, then describe() is
\* called for the status and again for the log URL; either call may raise.
launch_report ==
    /\ pc = "report"
    /\ \E ok \in BOOLEAN :
          /\ reported' = reported + 1
          /\ IF ~ok THEN Raise
             ELSE IF reported = 1
               THEN pc' = "end" /\ exit' = "ok" /\ error' = error
             ELSE pc' = pc /\ NoRaise
    /\ UNCHANGED <<launcher, chan, head, submitted, monVars, extVars, jobVars, subVars>>

\* ------------------------------------------------- the control process
\* The channel directories have not been read.
NoSources ==
    [train |-> [path |-> None, files |-> <<>>],
     eval |-> [path |-> None, files |-> <<>>]]

\* No training subprocess has ended.
NoProc == [returncode |-> -1, stdout |-> "", stderr |-> ""]

\* `nvidia-smi --list-gpus` has not been run.
NotRun == [ended |-> None, devices |-> 0]

\* The variables of a process that is not the one a specification runs.
ExtIdle ==
    /\ archive = [kind |-> "missing", members |-> {}]
    /\ destBefore = {}
    /\ epc = "idle"
    /\ checked = {}
    /\ files = {}
    /\ eresult = <<>>
    /\ eraised = None

JobIdle ==
    /\ variant = None
    /\ jpc = "idle"
    /\ env = [SM_CHANNEL_MODEL |-> None, SM_MODEL_DIR |-> None,
              RUN_DIR |-> None]
    /\ sources = NoSources
    /\ staged = [f \in {"train.jsonl", "eval.jsonl"} |-> <<"absent">>]
    /\ baseConfig = [kind |-> "missing", doc |-> <<>>]
    /\ writtenConfig = <<>>
    /\ gpu_count_result = NotRun
    /\ num_gpus = 0
    /\ cmd = <<>>
    /\ runs = 0
    /\ jexit = "running"
    /\ jerr = <<>>
    /\ steps = <<>>
    /\ proc = NoProc
    /\ stagings = <<>>

\* No submission attempt is modelled.
SubIdle ==
    /\ now = 0
    /\ job_names = <<>>

CtrlIdle ==
    /\ launcher = None
    /\ pc = "idle"
    /\ chan = 1
    /\ head = [c \in DOMAIN data_channels |-> "unchecked"]
    /\ submitted = FALSE
    /\ reported = 0
    /\ exit = "running"
    /\ error = NoError
    /\ MonitorInit

Init ==
    /\ launcher \in {"start_training", "launch_training"}
    /\ pc = "session"
    /\ chan = 1
    /\ head = [c \in DOMAIN data_channels |-> "unchecked"]
    /\ submitted = FALSE
    /\ reported = 0
    /\ exit = "running"
    /\ error = NoError
    /\ MonitorInit
    /\ ExtIdle
    /\ JobIdle
    /\ SubIdle

Next ==
    \/ create_session
    \/ create_estimator
    \/ get_data_channels
    \/ verify_s3_files
    \/ fit
    \/ monitor_poll
    \/ monitor_raise
    \/ monitor_return
    \/ main_finish
    \/ launch_report

Spec == Init /\ [][Next]_vars

\* The control process is one sequential thread: a step that can be taken
\* is taken.
LiveSpec == Spec /\ WF_vars(Next)

\* ======================================================================
\* train.extract_model (train.py:57-123)
\* ======================================================================
\* A path is the sequence of its components; every path here is absolute.
\* extract_path, the destination root of the call.
extract_path == <<"opt", "m">>

\* The characters of a path component, for the string operations of
\* is_within_directory.
CharsOf(c) ==
    CASE c = "opt" -> <<"o", "p", "t">>
      [] c = "m" -> <<"m">>
      [] c = "m_x" -> <<"m", "_", "x">>
      [] c = "etc" -> <<"e", "t", "c">>
      [] c = "passwd" -> <<"p", "a", "s", "s", "w", "d">>
      [] c = "model" -> <<"m", "o", "d", "e", "l">>
      [] c = "model.bin" -> <<"m", "o", "d", "e", "l", ".", "b", "i", "n">>
      [] c = "f" -> <<"f">>
      [] c = "g" -> <<"g">>
      [] c = "old" -> <<"o", "l", "d">>
      [] c = ".." -> <<".", ".">>
      [] OTHER -> <<"?">>

\* The member names (tarinfo.name) an archive may hold: 'model/f', 'g',
\* 'model/../f', '../../etc/passwd', '../m_x/f' and the absolute
\* '/etc/passwd'.
MemberNames ==
    {[abs |-> FALSE, parts |-> <<"model", "f">>],
     [abs |-> FALSE, parts |-> <<"g">>],
     [abs |-> FALSE, parts |-> <<"model", "..", "f">>],
     [abs |-> FALSE, parts |-> <<"..", "..", "etc", "passwd">>],
     [abs |-> FALSE, parts |-> <<"..", "m_x", "f">>],
     [abs |-> TRUE, parts |-> <<"etc", "passwd">>]}

\* What the file at model_path can be: absent; a gzip-compressed tar; gzip
\* data followed by bytes that are no gzip member (gzip.BadGzipFile
\* surfaces while the members are read); an uncompressed tar; any other file.
ArchiveKinds == {"missing", "gz", "gz_broken", "tar", "opaque"}

\* os.path.join(path, name): an absolute name replaces the path.
Join(path, member) ==
    IF member.abs THEN member.parts ELSE path \o member.parts

\* os.path.normpath on an absolute path: '.' and empty components go, '..'
\* removes the component before it and stays at the root.
RECURSIVE Normalize(_, _)
Normalize(parts, acc) ==
    IF parts = <<>> THEN acc
    ELSE LET h == Head(parts)
         IN  IF h \in {".", ""} THEN Normalize(Tail(parts), acc)
             ELSE IF h = ".."
               THEN Normalize(Tail(parts),
                              IF acc = <<>> THEN acc
                              ELSE SubSeq(acc, 1, Len(acc) - 1))
               ELSE Normalize(Tail(parts), Append(acc, h))

\* os.path.abspath of an absolute path.
Abspath(parts) == Normalize(parts, <<>>)

\* The string of an absolute path, as a sequence of characters.
RECURSIVE Render(_)
Render(parts) ==
    IF parts = <<>> THEN <<"/">>
    ELSE IF Len(parts) = 1 THEN <<"/">> \o CharsOf(parts[1])
    ELSE Render(SubSeq(parts, 1, Len(parts) - 1))
             \o <<"/">> \o CharsOf(Last(parts))

\* os.path.commonprefix([a, b]): the longest common prefix, by characters.
CommonPrefix(a, b) ==
    LET n == IF Len(a) < Len(b) THEN Len(a) ELSE Len(b)
        agree == {k \in 0..n : \A i \in 1..k : a[i] = b[i]}
        longest == CHOOSE k \in agree : \A j \in agree : j <= k
    IN  SubSeq(a, 1, longest)

\* train.py:83-87
is_within_directory(directory, target) ==
    LET abs_directory == Render(Abspath(directory))
        abs_target == Render(Abspath(target))
        prefix == CommonPrefix(abs_directory, abs_target)
    IN  prefix = abs_directory

\* train.py:90-93: the members safe_extract rejects.
Rejected(members) ==
    {mb \in members : ~is_within_directory(extract_path, Join(extract_path, mb))}

\* tar.extractall(path): where a member's file lands.
Destination(mb) == Abspath(Join(extract_path, mb))

\* os.listdir(extract_path) once these files are written: what was there
\* before and the first component below extract_path of each file in it.
Below(path) ==
    /\ Len(path) > Len(extract_path)
    /\ SubSeq(path, 1, Len(extract_path)) = extract_path

Listdir(written) ==
    destBefore \cup {path[Len(extract_path) + 1] : path \in {w \in written : Below(w)}}

\* extract_model has not returned a path.
NoPath == <<>>

\* How the outer handler (train.py:118-123) ends the call: log, re-raise.
ExtractRaise(e) ==
    /\ eraised' = e
    /\ epc' = "done"

\* train.py:68-79: the archive must exist; extract_path is created and the
\* magic bytes are logged.
ex_start ==
    /\ epc = "start"
    /\ IF archive.kind = "missing"
         THEN ExtractRaise("FileNotFoundError")
         ELSE epc' = "open_gz" /\ eraised' = eraised
    /\ UNCHANGED <<archive, destBefore, checked, files, eresult, ctrlVars,
                   jobVars, subVars>>

\* train.py:82 and 101-106: tarfile.open(model_path, 'r:gz'). A file that
\* is no gzip data makes it raise tarfile.ReadError, which the handler at
\* line 101 takes for the raw copy.
ex_open_gz ==
    /\ epc = "open_gz"
    /\ epc' = IF archive.kind \in {"gz", "gz_broken"} THEN "check" ELSE "copy"
    /\ UNCHANGED <<archive, destBefore, checked, files, eresult, eraised,
                   ctrlVars, jobVars, subVars>>

\* train.py:89-93: safe_extract reads the members and checks each before
\* anything is extracted. A rejected member raises Exception, which the
\* handler at line 101 takes for the raw copy. gzip.BadGzipFile while the
\* members are read goes to the handler at line 97.
ex_check ==
    /\ epc = "check"
    /\ IF archive.kind = "gz_broken"
         THEN epc' = "plain" /\ checked' = checked
         ELSE IF Rejected(archive.members) # {}
           THEN epc' = "copy" /\ checked' = checked
           ELSE epc' = "extractall" /\ checked' = archive.members
    /\ UNCHANGED <<archive, destBefore, files, eresult, eraised, ctrlVars,
                   jobVars, subVars>>

\* train.py:94: tar.extractall(path=path) writes every member.
ex_extractall ==
    /\ epc = "extractall"
    /\ files' = files \cup {Destination(mb) : mb \in archive.members}
    /\ epc' = "list"
    /\ UNCHANGED <<archive, destBefore, checked, eresult, eraised, ctrlVars,
                   jobVars, subVars>>

\* train.py:97-100: the retry as an uncompressed tar. The file is gzip data,
\* so tarfile.open(model_path, 'r:') raises ReadError, which no clause of
\* the inner try handles.
ex_plain ==
    /\ epc = "plain"
    /\ ExtractRaise("ReadError")
    /\ UNCHANGED <<archive, destBefore, checked, files, eresult, ctrlVars,
                   jobVars, subVars>>

\* train.py:101-106: the raw copy to extract_path/model.bin; extract_path is
\* returned.
ex_copy ==
    /\ epc = "copy"
    /\ files' = files \cup {extract_path \o <<"model.bin">>}
    /\ eresult' = <<extract_path>>
    /\ epc' = "done"
    /\ UNCHANGED <<archive, destBefore, checked, eraised, ctrlVars, jobVars, subVars>>

\* train.py:107-116: the listing of extract_path decides what is returned.
ex_list ==
    /\ epc = "list"
    /\ LET extracted_dirs == Listdir(files)
       IN  IF extracted_dirs = {}
             THEN ExtractRaise("NoFilesExtracted") /\ eresult' = eresult
             ELSE /\ eresult' =
                       IF Cardinality(extracted_dirs) = 1
                         THEN <<extract_path \o
                                  <<CHOOSE e \in extracted_dirs : TRUE>>>>
                         ELSE <<extract_path>>
                  /\ epc' = "done"
                  /\ eraised' = eraised
    /\ UNCHANGED <<archive, destBefore, checked, files, ctrlVars, jobVars, subVars>>

ExtractInit ==
    /\ archive \in
         {a \in [kind : ArchiveKinds, members : SUBSET MemberNames] :
             /\ Cardinality(a.members) <= MaxMembers
             /\ a.kind \in {"missing", "gz_broken", "opaque"} => a.members = {}}
    /\ destBefore \in SUBSET {"old"}
    /\ epc = "start"
    /\ checked = {}
    /\ files = {}
    /\ eresult = NoPath
    /\ eraised = None
    /\ CtrlIdle
    /\ JobIdle
    /\ SubIdle

ExtractNext ==
    \/ ex_start
    \/ ex_open_gz
    \/ ex_check
    \/ ex_extractall
    \/ ex_plain
    \/ ex_copy
    \/ ex_list

ExtractSpec == ExtractInit /\ [][ExtractNext]_vars

\* ======================================================================
\* The in-job process: train.train (train.py:196-271) and
\* sagemaker_train.train (sagemaker_train.py:139-170)
\* ======================================================================
\* How either train() ends on an exception (train.py:263-271,
\* sagemaker_train.py:162-170): log and re-raise.
JobRaise(step, exception) ==
    /\ jpc' = "end"
    /\ jexit' = "raised"
    /\ jerr' = <<step, exception>>

\* A validation step returned normally: the process goes on to `next`.
Returned(step, next) ==
    /\ jpc' = next
    /\ jexit' = jexit
    /\ jerr' = jerr
    /\ steps' = Append(steps, step)

\* A step raised: train() logs and re-raises, the process ends.
Failed(step, exception) ==
    /\ JobRaise(step, exception)
    /\ steps' = steps

\* ---------------------------------------------------------- data staging
\* A channel directory as the process finds it: the environment variable
\* (unset, empty or a path) and what glob("*.jsonl") lists there, in order.
SourceDirs ==
    {[path |-> p, files |-> <<>>] : p \in {None, ""}}
        \cup {[path |-> "/data", files |-> f] : f \in {<<>>, <<"a">>, <<"a", "b">>}}

\* The state of a file of the data directory: absent, left by an earlier
\* run, cut short by a failed copy, or the complete copy of a source file.
Absent == <<"absent">>
Old == <<"old">>
Partial == <<"partial">>
CopyOf(channel, file) == <<channel, file>>

\* shutil.copy2: it succeeds, fails before the destination is opened, or
\* fails after part of the destination has been written.
CopyOutcomes == {"ok", "fail_before", "fail_partway"}

\* Mutant of the copy: an existing destination is appended to.
AfterCopy_append(before, outcome, content) ==
    CASE outcome = "ok" -> IF before = <<"absent">> THEN content
                           ELSE <<"appended">>
      [] outcome = "fail_before" -> before
      [] outcome = "fail_partway" -> <<"partial">>

\* What one shutil.copy2 leaves at the destination.
AfterCopy(before, outcome, content) ==
    CASE outcome = "ok" -> content
      [] outcome = "fail_before" -> before
      [] outcome = "fail_partway" -> Partial

\* train.py:140 and sagemaker_train.py:83: if not train_path or not eval_path
PathsSet(t, e) == t.path \notin {None, ""} /\ e.path \notin {None, ""}

\* train.py:150 and sagemaker_train.py:89: if not train_files or not eval_files
FilesFound(t, e) == t.files # <<>> /\ e.files # <<>>

\* One call of setup_data_directory as the log records it: how it ended and
\* the two channels it read.
Staging(outcome, t, e) == [ended |-> outcome, train |-> t, eval |-> e]

\* Mutant of setup_data_directory: the evaluation listing is looked at only
\* after train.jsonl has been copied.
setup_data_directory_lateCheck ==
    /\ jpc = "stage"
    /\ variant = "train"
    /\ \E t \in SourceDirs, e \in SourceDirs :
         /\ sources' = [train |-> t, eval |-> e]
         /\ IF ~PathsSet(t, e) \/ t.files = <<>>
              THEN /\ Failed("setup_data_directory", "ValueError")
                   /\ staged' = staged
                   /\ stagings' = Append(stagings, Staging("ValueError", t, e))
              ELSE /\ staged' =
                        IF e.files = <<>>
                          THEN [staged EXCEPT !["train.jsonl"] =
                                  CopyOf("train", t.files[1])]
                          ELSE [f \in DOMAIN staged |->
                                  IF f = "train.jsonl"
                                    THEN CopyOf("train", t.files[1])
                                    ELSE CopyOf("eval", e.files[1])]
                   /\ IF e.files = <<>>
                        THEN /\ Failed("setup_data_directory", "ValueError")
                             /\ stagings' =
                                  Append(stagings, Staging("ValueError", t, e))
                        ELSE /\ Returned("setup_data_directory", "config")
                             /\ stagings' = Append(stagings, Staging("ok", t, e))
    /\ UNCHANGED <<variant, env, baseConfig, writtenConfig, gpu_count_result, num_gpus, cmd,
                   runs, proc, ctrlVars, extVars, subVars>>

\* train.py:125-170 setup_data_directory (called at train.py:203).
setup_data_directory ==
    /\ jpc = "stage"
    /\ variant = "train"
    /\ \E t \in SourceDirs, e \in SourceDirs :
         /\ sources' = [train |-> t, eval |-> e]
         /\ IF ~PathsSet(t, e) \/ ~FilesFound(t, e)
              THEN /\ Failed("setup_data_directory", "ValueError")
                   /\ staged' = staged
                   /\ stagings' = Append(stagings, Staging("ValueError", t, e))
              ELSE \E c1 \in CopyOutcomes :
                     LET one == [staged EXCEPT !["train.jsonl"] =
                                   AfterCopy(@, c1, CopyOf("train", t.files[1]))]
                     IN  IF c1 # "ok"
                           THEN /\ Failed("setup_data_directory", "OSError")
                                /\ staged' = one
                                /\ stagings' = Append(stagings, Staging("OSError", t, e))
                           ELSE \E c2 \in CopyOutcomes :
                                  /\ staged' = [one EXCEPT !["eval.jsonl"] =
                                       AfterCopy(@, c2, CopyOf("eval", e.files[1]))]
                                  /\ IF c2 # "ok"
                                       THEN /\ Failed("setup_data_directory",
                                                      "OSError")
                                            /\ stagings' = Append(stagings,
                                                 Staging("OSError", t, e))
                                       ELSE /\ Returned("setup_data_directory",
                                                        "config")
                                            /\ stagings' = Append(stagings,
                                                 Staging("ok", t, e))
    /\ UNCHANGED <<variant, env, baseConfig, writtenConfig, gpu_count_result, num_gpus, cmd,
                   runs, proc, ctrlVars, extVars, subVars>>

\* sagemaker_train.py:73-92 _verify_input_directories: the same two tests,
\* nothing is copied.
verify_input_directories ==
    /\ jpc = "stage"
    /\ variant = "sagemaker_train"
    /\ \E t \in SourceDirs, e \in SourceDirs :
         /\ sources' = [train |-> t, eval |-> e]
         /\ IF ~PathsSet(t, e) \/ ~FilesFound(t, e)
              THEN Failed("_verify_input_directories", "ValueError")
              ELSE Returned("_verify_input_directories", "model")
    /\ UNCHANGED <<variant, env, staged, baseConfig, writtenConfig, gpu_count_result, num_gpus,
                   cmd, runs, proc, stagings,
                   ctrlVars, extVars, subVars>>

\* sagemaker_train.py:59-71 _verify_model_directory: SM_CHANNEL_MODEL must
\* be set and hold a *.safetensors or *.tar.gz file.
verify_model_directory ==
    /\ jpc = "model"
    /\ \E found \in BOOLEAN :
         IF env.SM_CHANNEL_MODEL = None \/ ~found
           THEN Failed("_verify_model_directory", "ValueError")
           ELSE Returned("_verify_model_directory", "config")
    /\ UNCHANGED <<variant, env, sources, staged, baseConfig, writtenConfig,
                   gpu_count_result, num_gpus, cmd, runs, proc, stagings,
                   ctrlVars, extVars, subVars>>

\* ------------------------------------------------- configuration
\* The keys a configuration document may hold, and the value the base file
\* gives each.
ConfigKeys == {"model_id_or_path", "data", "run_dir", "seed"}

BaseValue(k) ==
    CASE k = "model_id_or_path" -> ""
      [] k = "data" -> "x"
      [] k = "run_dir" -> "old_run"
      [] k = "seed" -> "0"

\* The configuration file: absent, a YAML document that is no mapping, or a
\* mapping over some of the keys.
BaseConfigs ==
    {[kind |-> "missing", doc |-> <<>>], [kind |-> "scalar", doc |-> <<>>]}
        \cup {[kind |-> "dict", doc |-> [k \in K |-> BaseValue(k)]] :
                 K \in SUBSET ConfigKeys}

\* train.py:190
required_keys == {"model_id_or_path", "data"}

\* train.py:191
missing_keys(config) == {key \in required_keys : key \notin DOMAIN config}

\* train.py:172-194 load_and_validate_config: the exception it raises, or
\* "ok".
load_and_validate_config(file) ==
    IF file.kind = "missing" THEN "FileNotFoundError"
    ELSE IF file.kind # "dict" THEN "ValueError"
    ELSE IF missing_keys(file.doc) # {} THEN "ValueError"
    ELSE "ok"

\* Mutant of the assignment: the document is replaced by the one key.
SetKey_replace(config, key, value) == [k \in {key} |-> value]

\* config[key] = value
SetKey(config, key, value) ==
    [k \in DOMAIN config \cup {key} |-> IF k = key THEN value ELSE config[k]]

\* yaml.dump(config): one 'key: value' line per key, the keys sorted; None
\* is written as null.
KeyOrder == <<"data", "model_id_or_path", "run_dir", "seed">>

Dump(config) ==
    LET keys == SelectSeq(KeyOrder, LAMBDA k : k \in DOMAIN config)
    IN  [i \in 1..Len(keys) |->
            <<keys[i], IF config[keys[i]] = None THEN "null"
                       ELSE config[keys[i]]>>]

\* train.py:201 and 206-221: the values train.py overrides the keys with.
TrainOverrides ==
    [model_id_or_path |->
        IF env.SM_CHANNEL_MODEL # None THEN env.SM_CHANNEL_MODEL
        ELSE "mistralai/Mistral-7B-v0.3",
     run_dir |->
        IF env.SM_MODEL_DIR # None THEN env.SM_MODEL_DIR ELSE "/opt/ml/model"]

\* train.py:205-225: config.yaml is loaded and validated, then the two keys
\* are overwritten and the result is written to training_config.yaml.
train_config ==
    /\ jpc = "config"
    /\ variant = "train"
    /\ LET loaded == load_and_validate_config(baseConfig)
       IN  IF loaded # "ok"
             THEN /\ Failed("load_and_validate_config", loaded)
                  /\ writtenConfig' = writtenConfig
             ELSE LET config ==
                        SetKey(SetKey(baseConfig.doc, "model_id_or_path",
                                      TrainOverrides.model_id_or_path),
                               "run_dir", TrainOverrides.run_dir)
                  IN  /\ writtenConfig' = Dump(config)
                      /\ Returned("load_and_validate_config", "script")
    /\ UNCHANGED <<variant, env, sources, staged, baseConfig, gpu_count_result, num_gpus, cmd,
                   runs, proc, stagings,
                   ctrlVars, extVars, subVars>>

\* sagemaker_train.py:95-101 _process_config: the file is loaded, run_dir is
\* set from RUN_DIR and the document is written back to the same file. No
\* key is looked for; a document that is no mapping fails the assignment.
process_config ==
    /\ jpc = "config"
    /\ variant = "sagemaker_train"
    /\ IF baseConfig.kind # "dict"
         THEN /\ Failed("_process_config",
                        IF baseConfig.kind = "missing"
                          THEN "FileNotFoundError" ELSE "TypeError")
              /\ UNCHANGED <<baseConfig, writtenConfig>>
         ELSE LET config == SetKey(baseConfig.doc, "run_dir", env.RUN_DIR)
              IN  /\ baseConfig' = [kind |-> "dict", doc |-> config]
                  /\ writtenConfig' = Dump(config)
                  /\ Returned("_process_config", "gpu")
    /\ UNCHANGED <<variant, env, sources, staged, gpu_count_result, num_gpus, cmd, runs,
                   proc, stagings,
                   ctrlVars, extVars, subVars>>

\* ------------------------------------------------- GPU count and command
\* The newline character of the listing.
NL == "NL"

\* What `nvidia-smi --list-gpus` prints for n devices: one line each.
RECURSIVE Listing(_)
Listing(n) == IF n = 0 THEN <<>> ELSE <<"G", NL>> \o Listing(n - 1)

\* str.strip(): leading and trailing whitespace goes.
RECURSIVE Strip(_)
Strip(text) ==
    IF text = <<>> THEN text
    ELSE IF Head(text) = NL THEN Strip(Tail(text))
    ELSE IF Last(text) = NL THEN Strip(SubSeq(text, 1, Len(text) - 1))
    ELSE text

\* len(text.split('\n')): one more than the number of separators.
SplitLen(text) == 1 + Cardinality({i \in DOMAIN text : text[i] = NL})

\* train.py:36-55 and sagemaker_train.py:37-56: the count for the outcome
\* of the subprocess: the utility is absent, exits non-zero, or lists n
\* devices.
gpu_count(outcome) ==
    IF outcome.ended \in {"FileNotFoundError", "CalledProcessError"} THEN 0
    ELSE SplitLen(Strip(Listing(outcome.devices)))

\* The outcomes of the subprocess.
GpuOutcomes ==
    {[ended |-> x, devices |-> 0] : x \in {"FileNotFoundError", "CalledProcessError"}}
        \cup {[ended |-> "ok", devices |-> n] : n \in 0..MaxGpus}

\* str(n) for n >= 0, as the sequence of its decimal digits.
DigitChar(d) ==
    CASE d = 0 -> "0" [] d = 1 -> "1" [] d = 2 -> "2" [] d = 3 -> "3"
      [] d = 4 -> "4" [] d = 5 -> "5" [] d = 6 -> "6" [] d = 7 -> "7"
      [] d = 8 -> "8" [] d = 9 -> "9"

RECURSIVE Str(_)
Str(n) ==
    IF n < 10 THEN <<DigitChar(n)>>
    ELSE Str(n \div 10) \o <<DigitChar(n % 10)>>

\* Mutant of the test: a single GPU is launched as a plain process.
UseTorchrun_moreThanOne(n) == n > 1

\* train.py:231 and sagemaker_train.py:109: if num_gpus > 0
UseTorchrun(n) == n > 0

\* train.py:227
training_script == "/opt/ml/code/mistral-finetune/train.py"

\* train.py:231-245: the command train.py builds.
train_command(n) ==
    IF UseTorchrun(n)
      THEN <<"torchrun", "--nproc-per-node", Str(n), training_script,
             "--config", "training_config.yaml">>
      ELSE <<"sys.executable", training_script, "--config",
             "training_config.yaml">>

\* sagemaker_train.py:109-137: the command _process_constructor returns.
process_constructor_command(n) ==
    IF UseTorchrun(n)
      THEN <<"torchrun", "--nproc-per-node", Str(n), "-m",
             "mistral_finetune.train", "config.yaml">>
      ELSE <<"python", "-m", "mistral_finetune.train", "config.yaml">>

\* train.py:227-229: the training script must exist.
script_check ==
    /\ jpc = "script"
    /\ \E exists \in BOOLEAN :
         IF exists THEN Returned("training_script.exists", "gpu")
         ELSE Failed("train", "FileNotFoundError")
    /\ UNCHANGED <<variant, env, sources, staged, baseConfig, writtenConfig,
                   gpu_count_result, num_gpus, cmd, runs, proc, stagings,
                   ctrlVars, extVars, subVars>>

\* train.py:230 check_gpu_availability, sagemaker_train.py:147
\* _check_gpu_availability.
check_gpu_availability ==
    /\ jpc = "gpu"
    /\ \E outcome \in GpuOutcomes :
         /\ gpu_count_result' = outcome
         /\ num_gpus' = gpu_count(outcome)
    /\ jpc' = "build"
    /\ UNCHANGED <<variant, env, sources, staged, baseConfig, writtenConfig,
                   cmd, runs, jexit, jerr, steps, proc, stagings,
                   ctrlVars, extVars, subVars>>

\* train.py:231-247: the command is built in train().
build_command ==
    /\ jpc = "build"
    /\ variant = "train"
    /\ cmd' = train_command(num_gpus)
    /\ jpc' = "run"
    /\ UNCHANGED <<variant, env, sources, staged, baseConfig, writtenConfig,
                   gpu_count_result, num_gpus, runs, jexit, jerr, steps, proc, stagings,
                   ctrlVars, extVars, subVars>>

\* sagemaker_train.py:104-137 _process_constructor: the training script
\* must exist, then the command is built.
process_constructor ==
    /\ jpc = "build"
    /\ variant = "sagemaker_train"
    /\ \E exists \in BOOLEAN :
         IF exists
           THEN /\ cmd' = process_constructor_command(num_gpus)
                /\ jpc' = "run"
                /\ jexit' = jexit
                /\ jerr' = jerr
           ELSE /\ JobRaise("_process_constructor", "FileNotFoundError")
                /\ cmd' = cmd
    /\ UNCHANGED <<variant, env, sources, staged, baseConfig, writtenConfig,
                   gpu_count_result, num_gpus, runs, steps, proc, stagings,
                   ctrlVars, extVars, subVars>>

\* What the training subprocess can end with: its exit code and what it
\* wrote to stdout and stderr.
ProcOutcomes == [returncode : {0, 1}, stdout : {"", "out"}, stderr : {"", "err"}]

\* Mutant of the call: check=False, the exit code is not looked at.
run_training_unchecked ==
    /\ jpc = "run"
    /\ runs' = runs + 1
    /\ \E p \in ProcOutcomes :
         /\ proc' = p
         /\ jpc' = "end" /\ jexit' = "ok" /\ jerr' = jerr
    /\ UNCHANGED <<variant, env, sources, staged, baseConfig, writtenConfig,
                   gpu_count_result, num_gpus, cmd, steps, stagings, ctrlVars, extVars,
                   subVars>>

\* train.py:249-268 and sagemaker_train.py:150-167: subprocess.run with
\* check=True and capture_output=True, called once. A non-zero exit raises
\* CalledProcessError with the exit code and the captured output and
\* stderr; the handler logs the three and re-raises.
run_training ==
    /\ jpc = "run"
    /\ runs' = runs + 1
    /\ \E p \in ProcOutcomes :
         /\ proc' = p
         /\ IF p.returncode = 0
              THEN jpc' = "end" /\ jexit' = "ok" /\ jerr' = jerr
              ELSE /\ jpc' = "end"
                   /\ jexit' = "raised"
                   /\ jerr' = <<"subprocess.run", "CalledProcessError",
                                [returncode |-> p.returncode,
                                 output |-> p.stdout,
                                 stderr |-> p.stderr]>>
    /\ UNCHANGED <<variant, env, sources, staged, baseConfig, writtenConfig,
                   gpu_count_result, num_gpus, cmd, steps, stagings, ctrlVars, extVars,
                   subVars>>

JobInit ==
    /\ variant \in {"train", "sagemaker_train"}
    /\ jpc = "stage"
    /\ env \in [SM_CHANNEL_MODEL : {None, "/local/model"},
                SM_MODEL_DIR : {None, "/out"},
                RUN_DIR : {None, "/runs/1"}]
    /\ sources = NoSources
    /\ staged \in {[f \in {"train.jsonl", "eval.jsonl"} |-> c] :
                      c \in {Absent, Old}}
    /\ baseConfig \in BaseConfigs
    /\ writtenConfig = <<>>
    /\ gpu_count_result = NotRun
    /\ num_gpus = 0
    /\ cmd = <<>>
    /\ runs = 0
    /\ jexit = "running"
    /\ jerr = <<>>
    /\ steps = <<>>
    /\ proc = NoProc
    /\ stagings = <<>>
    /\ CtrlIdle
    /\ ExtIdle
    /\ SubIdle

JobNext ==
    \/ setup_data_directory
    \/ verify_input_directories
    \/ verify_model_directory
    \/ train_config
    \/ process_config
    \/ script_check
    \/ check_gpu_availability
    \/ build_command
    \/ process_constructor
    \/ run_training

JobSpec == JobInit /\ [][JobNext]_vars

\* ------------------------------------------- staging, called repeatedly
\* train.py:203: train() of a later run of the script calls
\* setup_data_directory again, on the data directory the earlier run left.
stage_again ==
    /\ jpc \in {"config", "end"}
    /\ Len(stagings) < MaxStagings
    /\ jpc' = "stage"
    /\ jexit' = "running"
    /\ jerr' = <<>>
    /\ steps' = <<>>
    /\ UNCHANGED <<variant, env, sources, staged, baseConfig, writtenConfig,
                   gpu_count_result, num_gpus, cmd, runs, proc, stagings, ctrlVars, extVars,
                   subVars>>

StageInit ==
    /\ variant = "train"
    /\ jpc = "stage"
    /\ env = [SM_CHANNEL_MODEL |-> None, SM_MODEL_DIR |-> None,
              RUN_DIR |-> None]
    /\ sources = NoSources
    /\ staged \in {[f \in {"train.jsonl", "eval.jsonl"} |-> c] :
                      c \in {Absent, Old}}
    /\ baseConfig = [kind |-> "missing", doc |-> <<>>]
    /\ writtenConfig = <<>>
    /\ gpu_count_result = NotRun
    /\ num_gpus = 0
    /\ cmd = <<>>
    /\ runs = 0
    /\ jexit = "running"
    /\ jerr = <<>>
    /\ steps = <<>>
    /\ proc = NoProc
    /\ stagings = <<>>
    /\ CtrlIdle
    /\ ExtIdle
    /\ SubIdle

StageNext ==
    \/ setup_data_directory
    \/ stage_again

StageSpec == StageInit /\ [][StageNext]_vars

\* ======================================================================
\* Job names: start_training.main builds job_name from the wall clock
\* (start_training.py:220) on every submission attempt
\* ======================================================================
\* Clock ticks in one second: the clock runs finer than the timestamp.
TicksPerSecond == 2

\* datetime.now().strftime('%Y%m%d-%H%M%S'): the wall clock cut to whole
\* seconds, written in decimal digits.
strftime(t) == Str(t \div TicksPerSecond)

\* start_training.py:220: f"mf-test-job-{...}"
job_name(t) == <<"mf-test-job-">> \o strftime(t)

\* Time passes.
tick ==
    /\ now < MaxClock
    /\ now' = now + 1
    /\ UNCHANGED <<job_names, ctrlVars, extVars, jobVars>>

\* start_training.py:220-228: a run of main reaches the submission, names
\* the job after the current time and passes the name to estimator.fit.
submit ==
    /\ Len(job_names) < MaxSubmissions
    /\ job_names' = Append(job_names, job_name(now))
    /\ UNCHANGED <<now, ctrlVars, extVars, jobVars>>

SubmitInit ==
    /\ SubIdle
    /\ CtrlIdle
    /\ ExtIdle
    /\ JobIdle

SubmitNext ==
    \/ tick
    \/ submit

SubmitSpec == SubmitInit /\ [][SubmitNext]_vars

\* C18 as stated: no two submission attempts are given the same job name.
C18_JobNamesDistinct ==
    \A i, j \in DOMAIN job_names : i # j => job_names[i] # job_names[j]

\* ======================================================================
\* Properties of extract_model
\* ======================================================================
\* A member whose file would land outside extract_path.
Escapes(mb) == ~Below(Destination(mb))

\* C2 as stated: no file is written outside extract_path, because every
\* member whose destination is no descendant of extract_path, a sibling
\* directory such as '../m_x/f' included, is rejected before extraction.
C2_NothingWrittenOutsideRoot ==
    \A path \in files : Below(path)

\* C3 as stated: for a gzip-compressed tar with an escaping member,
\* extract_model ends by raising the path-traversal error and returns no
\* path.
C3_TraversalRaises ==
    (/\ epc = "done"
     /\ archive.kind = "gz"
     /\ \E mb \in archive.members : Escapes(mb))
        => (eresult = NoPath /\ eraised = "PathTraversalError")

\* The run took the raw copy: the archive itself lies at
\* extract_path/model.bin.
RawCopied == (extract_path \o <<"model.bin">>) \in files

\* C12 as stated: an uncompressed tar whose members all pass the check is
\* unpacked by the retry as a plain tar, every member is written, and the
\* raw copy to extract_path/model.bin does not happen.
C12_PlainTarUnpacked ==
    (/\ epc = "done"
     /\ archive.kind = "tar"
     /\ archive.members # {}
     /\ Rejected(archive.members) = {})
        => (/\ {Destination(mb) : mb \in archive.members} \subseteq files
            /\ ~RawCopied)

\* The top-level entries of extract_path that the archive's members
\* produce.
Produced ==
    {path[Len(extract_path) + 1] :
        path \in {d \in {Destination(mb) : mb \in archive.members} : Below(d)}}

\* C13 as stated: when the members were extracted and a path is returned,
\* the path is extract_path/<entry> if the archive produced exactly one
\* top-level entry and extract_path otherwise, whatever extract_path held
\* before the call.
C13_ResultFromArchiveEntries ==
    (/\ epc = "done"
     /\ checked = archive.members
     /\ archive.kind = "gz"
     /\ eresult # NoPath
     /\ ~RawCopied)
        => eresult =
             IF Cardinality(Produced) = 1
               THEN <<extract_path \o <<CHOOSE e \in Produced : TRUE>>>>
               ELSE <<extract_path>>

\* ======================================================================
\* Properties of the in-job process
\* ======================================================================
\* The configuration step ended with an exception.
ConfigFailed ==
    /\ jerr # <<>>
    /\ jerr[1] \in {"load_and_validate_config", "_process_config"}

\* The configuration step wrote the document for the trainer.
ConfigWritten == writtenConfig # <<>>

\* The keys of the final merged document: those of the base file and those
\* the process overrides (train.py:217-221, sagemaker_train.py:99).
MergedKeys ==
    DOMAIN baseConfig.doc
        \cup (IF variant = "train" THEN {"model_id_or_path", "run_dir"}
              ELSE {"run_dir"})

\* C9 as stated: for a base file that is a mapping, the configuration step
\* succeeds exactly when the merged document, overrides applied, holds both
\* required keys, and fails otherwise.
C9_ValidatesMergedDocument ==
    (baseConfig.kind = "dict" /\ (ConfigWritten \/ ConfigFailed))
        => (ConfigWritten <=> {"model_id_or_path", "data"} \subseteq MergedKeys)

\* The number a sequence of decimal digits denotes.
DigitValue(c) ==
    CASE c = "0" -> 0 [] c = "1" -> 1 [] c = "2" -> 2 [] c = "3" -> 3
      [] c = "4" -> 4 [] c = "5" -> 5 [] c = "6" -> 6 [] c = "7" -> 7
      [] c = "8" -> 8 [] c = "9" -> 9

RECURSIVE Decimal(_)
Decimal(digits) ==
    IF digits = <<>> THEN 0
    ELSE 10 * Decimal(SubSeq(digits, 1, Len(digits) - 1))
             + DigitValue(Last(digits))

\* C10: the command built is decided by the GPU count: for 0 it is the
\* interpreter running the training entry point on the configuration, with
\* no launcher; for N > 0 it is torchrun with --nproc-per-node followed by
\* the decimal numeral of N.
C10_CommandFromGpuCount ==
    cmd # <<>> =>
        /\ Last(cmd) \in {"config.yaml", "training_config.yaml"}
        /\ IF num_gpus = 0
             THEN /\ cmd[1] \in {"python", "sys.executable"}
                  /\ Len(cmd) = 4
                  /\ cmd[2] \in {training_script, "-m"}
             ELSE /\ cmd[1] = "torchrun"
                  /\ cmd[2] = "--nproc-per-node"
                  /\ Len(cmd[3]) >= 1
                  /\ Decimal(cmd[3]) = num_gpus
                  /\ cmd[4] \in {training_script, "-m"}

C10_Witness ==
    /\ variant = "sagemaker_train"
    /\ num_gpus = 10
    /\ cmd = <<"torchrun", "--nproc-per-node", <<"1", "0">>, "-m",
               "mistral_finetune.train", "config.yaml">>
    /\ jexit = "ok"

\* C11 as stated: building the launch command never fails: no run ends with
\* an error raised where the command is built, whatever the filesystem
\* holds.
C11_BuilderNeverFails ==
    jerr # <<>> => jerr[1] \notin {"_process_constructor", "train"}

\* Both channels are set and each lists a .jsonl file.
InputsPresent(src) ==
    /\ src.train.path \notin {None, ""}
    /\ src.eval.path \notin {None, ""}
    /\ src.train.files # <<>>
    /\ src.eval.files # <<>>

\* C14: a staging step that finds a channel unset or empty, or a listing
\* without a .jsonl file, ends the run with an error and leaves both files
\* of the data directory as they were: nothing is copied.
C14_NoCopyUnlessInputsPresent ==
    [][(jpc = "stage" /\ jpc' # "stage" /\ ~InputsPresent(sources'))
          => (staged' = staged /\ jexit' = "raised"
                /\ jerr'[2] = "ValueError")]_vars

C14_Witness ==
    /\ variant = "train"
    /\ stagings # <<>>
    /\ Last(stagings).ended = "ValueError"
    /\ sources.train.files # <<>>
    /\ sources.eval.path = "/data"
    /\ sources.eval.files = <<>>
    /\ staged["train.jsonl"] = Old
    /\ jexit = "raised"

\* C15 as stated: no file of the data directory is ever a partial copy.
C15_NoPartialFile ==
    \A f \in DOMAIN staged : staged[f] # Partial

\* C16: when setup_data_directory is called again with the sources of a
\* call that succeeded, it raises no validation error, and when its copies
\* complete it leaves train.jsonl and eval.jsonl exactly as the earlier
\* call left them.
C16_StagingIdempotent ==
    [][(/\ jpc = "stage"
        /\ jpc' # "stage"
        /\ stagings # <<>>
        /\ Last(stagings).ended = "ok"
        /\ Last(stagings').train = Last(stagings).train
        /\ Last(stagings').eval = Last(stagings).eval)
          => (/\ Last(stagings').ended \in {"ok", "OSError"}
              /\ Last(stagings').ended = "ok" => staged' = staged)]_vars

C16_Witness ==
    /\ Len(stagings) = 2
    /\ stagings[1].ended = "ok"
    /\ stagings[2] = stagings[1]
    /\ stagings[1].train.files = <<"a", "b">>
    /\ staged["train.jsonl"] = CopyOf("train", "a")
    /\ staged["eval.jsonl"] = CopyOf("eval", stagings[1].eval.files[1])
    /\ jpc = "config"

\* The keys the process overrides and the value each is given, as YAML
\* writes it: train.py sets model_id_or_path from SM_CHANNEL_MODEL (or the
\* hub identifier) and run_dir from SM_MODEL_DIR (or /opt/ml/model);
\* sagemaker_train.py sets run_dir from RUN_DIR.
Overrides ==
    IF variant = "train"
      THEN [model_id_or_path |->
               IF env.SM_CHANNEL_MODEL = None THEN "mistralai/Mistral-7B-v0.3"
               ELSE env.SM_CHANNEL_MODEL,
            run_dir |->
               IF env.SM_MODEL_DIR = None THEN "/opt/ml/model"
               ELSE env.SM_MODEL_DIR]
      ELSE [run_dir |-> IF env.RUN_DIR = None THEN "null" ELSE env.RUN_DIR]

\* The 'key: value' lines of the written document.
WrittenPairs == {writtenConfig[i] : i \in DOMAIN writtenConfig}

\* C17: the written document holds each overridden key with exactly the
\* override value and every other key of the base file with its base value;
\* it holds no other key and no key twice.
C17_OverwriteOnly ==
    ConfigWritten =>
        /\ {pair[1] : pair \in WrittenPairs}
              = DOMAIN baseConfig.doc \cup DOMAIN Overrides
        /\ Len(writtenConfig) = Cardinality(WrittenPairs)
        /\ \A pair \in WrittenPairs :
              pair[2] = IF pair[1] \in DOMAIN Overrides
                          THEN Overrides[pair[1]]
                          ELSE BaseValue(pair[1])

\* The scenario of the claim: {model_id_or_path: "", data: "x"} with the
\* model channel at /local/model.
C17_Witness ==
    /\ variant = "train"
    /\ DOMAIN baseConfig.doc = {"model_id_or_path", "data"}
    /\ baseConfig.doc["model_id_or_path"] = ""
    /\ env.SM_CHANNEL_MODEL = "/local/model"
    /\ writtenConfig = <<<<"data", "x">>,
                         <<"model_id_or_path", "/local/model">>,
                         <<"run_dir", "/opt/ml/model">>>>

\* The steps that returned include the verification of the input
\* directories, then the verification of the model, then the processing of
\* the configuration.
ValidatedInOrder ==
    \E i, j, k \in DOMAIN steps :
        /\ i < j
        /\ j < k
        /\ steps[i] \in {"_verify_input_directories", "setup_data_directory"}
        /\ steps[j] = "_verify_model_directory"
        /\ steps[k] \in {"_process_config", "load_and_validate_config"}

\* C19 as stated: a training subprocess is started only after the input
\* directories, the model and the configuration have been verified, in that
\* order, and a run that ends on a failed validation step has started none.
C19_RunOnlyAfterValidation ==
    /\ runs > 0 => ValidatedInOrder
    /\ (jexit = "raised" /\ jerr[1] # "subprocess.run") => runs = 0

\* C20: the training subprocess is run at most once and never again after
\* it ended; a run that started it returns normally exactly when the exit
\* code is 0, and otherwise raises CalledProcessError carrying that exit
\* code and the captured stdout and stderr.
C20_RunOnceAndSurface ==
    /\ runs <= 1
    /\ runs = 1 =>
         /\ jpc = "end"
         /\ IF proc.returncode = 0
              THEN jexit = "ok" /\ jerr = <<>>
              ELSE /\ jexit = "raised"
                   /\ jerr = <<"subprocess.run", "CalledProcessError",
                               [returncode |-> proc.returncode,
                                output |-> proc.stdout,
                                stderr |-> proc.stderr]>>

C20_Witness ==
    /\ runs = 1
    /\ proc = [returncode |-> 1, stdout |-> "out", stderr |-> "err"]
    /\ jexit = "raised"
    /\ jerr[1] = "subprocess.run"
    /\ jerr[3].returncode = 1

\* ======================================================================
\* Properties of the control process
\* ======================================================================
\* The statuses the successful describe() calls returned, in order.
StatusesPolled == SelectSeq(polled, LAMBDA x : x # Error)

\* The status the poll before poll i returned (none before the first).
Previous(s, i) == IF i = 1 THEN None ELSE s[i - 1]

\* How many polls of s returned a status other than the poll before.
Changes(s) == Cardinality({i \in DOMAIN s : s[i] # Previous(s, i)})

ErrorPolled == \E i \in DOMAIN polled : polled[i] = Error

TerminalPolled == \E i \in DOMAIN polled : polled[i] \in TerminalStatuses

FirstTerminal ==
    CHOOSE i \in DOMAIN polled :
        /\ polled[i] \in TerminalStatuses
        /\ \A j \in 1..(i - 1) : polled[j] \notin TerminalStatuses

\* A step in which describe() was called and returned a description.
SuccessfulPoll ==
    /\ describeCalls' = describeCalls + 1
    /\ Last(polled') # Error

\* C1: a status-change event is emitted on a poll if and only if the polled
\* status differs from the status recorded before the poll (none at first),
\* and on no other step; so the number of events is the number of changes in
\* the polled sequence, two for [InProgress, InProgress, InProgress,
\* Completed].
C1_EventIffChanged ==
    /\ [][IF SuccessfulPoll
            THEN events' = events + (IF Last(polled') # status THEN 1 ELSE 0)
            ELSE events' = events]_vars
    /\ [](events = Changes(StatusesPolled))

C1_Witness ==
    /\ polled = <<"InProgress", "InProgress", "InProgress", "Completed">>
    /\ events = 2

\* C4: once a poll has returned a terminal status, monitor_training_job
\* returns; what it returns is the first terminal status polled, which is the
\* status of the last describe() made, with that poll's description.
C4_TerminalConvergence ==
    /\ [](result # NoResult =>
            /\ TerminalPolled
            /\ FirstTerminal = Len(polled)
            /\ result[1] = polled[FirstTerminal]
            /\ result[2] = description
            /\ result[2].TrainingJobStatus = result[1])
    /\ (TerminalPolled ~> result # NoResult)

C4_Witness ==
    /\ polled = <<"Pending", "InProgress", "Stopped">>
    /\ result # NoResult
    /\ result[1] = "Stopped"

\* C5 as stated: the recorded status stays within the five lifecycle states
\* and only moves forward along Pending -> InProgress -> terminal.
Rank(s) ==
    CASE s = None -> 0
      [] s = "Pending" -> 1
      [] s = "InProgress" -> 2
      [] OTHER -> 3

C5_Original ==
    /\ [](status \in SpecStatuses \cup {None})
    /\ [][status' # status => Rank(status') > Rank(status)]_vars

\* C5 as amended: the recorded status is always the status the most recent
\* successful describe() returned (none before the first), whatever the
\* order or the value of what the backend reports.
C5_RecordsLastPolled ==
    status = (IF StatusesPolled = <<>> THEN None ELSE Last(StatusesPolled))

C5_Witness ==
    /\ polled = <<"InProgress", "Pending", "Stopping">>
    /\ status = "Stopping"

\* C6: once the recorded status is terminal, no step calls describe(),
\* emits a status-change event or a metric, or changes the recorded status.
C6_TerminalIsFinal ==
    [][(status \in TerminalStatuses) =>
        /\ status' = status
        /\ polled' = polled
        /\ describeCalls' = describeCalls
        /\ events' = events
        /\ icPuts' = icPuts /\ btPuts' = btPuts]_vars

C6_Witness ==
    /\ status = "Stopped"
    /\ result = <<"Stopped", description>>
    /\ exit = "ok"

\* C7: a describe() that raises is the last thing the monitor does: the
\* process ends with the error, nothing was returned, no describe() follows
\* it, the failing iteration did not sleep, and the events are those of the
\* polls before it.
C7_PollErrorPropagates ==
    ErrorPolled =>
        /\ Last(polled) = Error
        /\ \A i \in 1..(Len(polled) - 1) : polled[i] # Error
        /\ pc = "end"
        /\ exit = "raised"
        /\ result = NoResult
        /\ describeCalls = Len(polled)
        /\ sleeps = Len(polled) - 1
        /\ events = Changes(StatusesPolled)

C7_Witness ==
    /\ polled = <<"InProgress", "InProgress", Error>>
    /\ exit = "raised"

\* C8 as stated: a job is submitted only after head_object succeeded for
\* every s3:// channel, and a failed check leaves no job submitted and no
\* monitoring started.
S3Channels == {c \in DOMAIN data_channels : data_channels[c] = "s3"}

C8_SubmitOnlyAfterVerification ==
    /\ submitted => \A c \in S3Channels : head[c] = "ok"
    /\ (\E c \in S3Channels : head[c] \notin {"ok", "unchecked"}) =>
            ~submitted /\ describeCalls = 0

\* C21 as stated: main of start_training.py returns normally only when the
\* monitor returned the status Completed.
C21_ExitOkOnlyOnFullSuccess ==
    (launcher = "start_training" /\ exit = "ok")
        => (result # NoResult /\ result[1] = "Completed")

\* C22: a successful poll whose status differs from the recorded one puts
\* InstanceCount once if the description carries ResourceConfig and
\* BillableTime once if it carries BillableTimeInSeconds; every other step
\* puts no metric; InstanceCount is never put more often than the status
\* has changed.
C22_MetricsOncePerChange ==
    /\ [](icPuts <= Changes(StatusesPolled))
    /\ [][SuccessfulPoll =>
            IF Last(polled') # status
              THEN /\ icPuts' = icPuts
                        + (IF description'.ResourceConfig THEN 1 ELSE 0)
                   /\ btPuts' = btPuts
                        + (IF description'.BillableTimeInSeconds THEN 1 ELSE 0)
              ELSE icPuts' = icPuts /\ btPuts' = btPuts]_vars
    /\ [][~SuccessfulPoll => (icPuts' = icPuts /\ btPuts' = btPuts)]_vars

C22_Witness ==
    /\ Len(polled) = 4
    /\ Changes(StatusesPolled) = 3
    /\ icPuts = 1
    /\ btPuts = 2
    /\ result # NoResult

\* The channel whose check ended verify_s3_files with an error of the
\* service code `code`.
VerificationFailedWith(code) ==
    /\ launcher = "start_training"
    /\ exit = "raised"
    /\ chan <= Len(ChannelNames)
    /\ head[ChannelNames[chan]] = code

\* C23 as stated: the error raised for a missing object (404) and the one
\* raised for a denied access (403) are of different kinds, and the first
\* failing channel ends verification: no later channel is checked and
\* nothing is submitted.
C23_DistinctErrorKinds ==
    \A code \in {"404", "403"} :
        VerificationFailedWith(code) =>
            /\ \A other \in {"404", "403"} \ {code} :
                  error.type # ErrorRaised(other).type
            /\ \A c \in (chan + 1)..Len(ChannelNames) :
                  head[ChannelNames[c]] = "unchecked"
            /\ ~submitted

\* C25: a put_metric failure changes nothing of the monitor: the poll it
\* happens in records the polled status, sleeps and stays in the loop like
\* any other; the process ends with an error during monitoring only when
\* describe() raised; and what the monitor returns is the last polled
\* status with its description.
C25_SinkFailureAbsorbed ==
    /\ [][(sinkErrors' /\ ~sinkErrors) =>
            (/\ SuccessfulPoll
             /\ pc' = pc
             /\ exit' = exit
             /\ status' = Last(polled')
             /\ sleeps' = sleeps + 1
             /\ result' = result)]_vars
    /\ []((exit = "raised" /\ polled # <<>>) => Last(polled) = Error)
    /\ []((sinkErrors /\ result # NoResult) =>
            result = <<Last(polled), description>>)

C25_Witness ==
    /\ sinkErrors
    /\ polled = <<"Pending", "InProgress", "Completed">>
    /\ result # NoResult
    /\ result[1] = "Completed"
    /\ exit = "ok"

\* C26 as stated: the count returned is the number of devices the utility
\* listed, 0 for an empty listing, and 0 when the utility is absent or
\* exits with an error.
C26_GpuCountIsDevices ==
    gpu_count_result # NotRun =>
        num_gpus = IF gpu_count_result.ended = "ok"
                     THEN gpu_count_result.devices
                     ELSE 0

====
